---- MODULE Spec2Model ----
(***************************************************************************)
(* BI Assistant chat page: the session list, the displayed transcript, the *)
(* simulated response timer and the localStorage slot, as one state        *)
(* machine.  One action per event handler of the BIAssistant and           *)
(* ChatHistory components; every action includes the render that follows   *)
(* the handler and the save effect that render triggers.                   *)
(***************************************************************************)
EXTENDS Integers, Sequences, FiniteSets

\* ------------------------------------------------------------------ bounds
\* Largest clock reading (Date.now()) the model explores.
MaxNow == 3
\* handleNewChat is not explored beyond this many sessions in the list.
MaxSessions == 2
\* No transcript is explored beyond this many messages.
MaxMessages == 3
\* One conversation followed on its own: its largest clock reading and its
\* largest number of messages.
MaxChatNow == 5
MaxChatMessages == 5

\* ------------------------------------------------------------ state
VARIABLES
    messages,          \* useState<Message[]>: the displayed transcript
    inputMessage,      \* useState(""): the text in the Textarea
    isTyping,          \* useState(false): a simulated response is awaited
    currentSessionId,  \* useState(""): the active session id
    chatSessions,      \* useState<ChatSession[]>: the session list
    storage,           \* localStorage slot 'bi-assistant-sessions'
    timers,            \* number of scheduled setTimeout response callbacks
    now,               \* the clock read by Date.now() / new Date()
    sentIn,            \* where the last accepted send happened
    uncaught           \* an exception of localStorage.setItem reached React

vars == << messages, inputMessage, isTyping, currentSessionId, chatSessions,
           storage, timers, now, sentIn, uncaught >>

\* ------------------------------------------------------------ values
\* A text is a sequence of chunks; the chunk " " is white space.
Undefined == "undefined"

\* Number.prototype.toString: the decimal digits of n.
RECURSIVE ToString(_)
ToString(n) == IF n < 10 THEN << n >> ELSE ToString(n \div 10) \o << n % 10 >>

\* String.prototype.trim: drops leading and trailing white space.
RECURSIVE TrimStart(_)
TrimStart(t) == IF t # << >> /\ Head(t) = " " THEN TrimStart(Tail(t)) ELSE t

RECURSIVE TrimEnd(_)
TrimEnd(t) ==
    IF t # << >> /\ t[Len(t)] = " " THEN TrimEnd(SubSeq(t, 1, Len(t) - 1)) ELSE t

Trim(t) == TrimEnd(TrimStart(t))

\* The seeded greeting of the session created at first load.
InitialGreeting == << "Hello! I'm your Business Intelligence assistant. I can help you visualize data, analyze trends, and generate insights. Ask me anything about your data!" >>
\* The seeded greeting of a session created by "new chat".
NewChatGreeting == << "Hello! I'm your Business Intelligence assistant. What insights can I help you discover today?" >>
\* The seeded greeting of the session synthesized when the list empties.
DeleteGreeting == << "Hello! I'm your Business Intelligence assistant. What can I help you analyze?" >>

Greeting(content, t) ==
    [ id |-> ToString(1), type |-> "bot", content |-> content, timestamp |-> t,
      chartSpec |-> Undefined, tableData |-> Undefined ]

Session(id, title, t, msgs) ==
    [ id |-> id, title |-> title, timestamp |-> t, messageCount |-> 1,
      messages |-> msgs ]

\* ------------------------------------------------------------ the store
\* An object is a record; a property that is not there reads as undefined.
\* The undefined id is written as a digit tuple no number prints as.
UndefinedId == << 0 - 1 >>
IdOf(obj) == IF "id" \in DOMAIN obj THEN obj.id ELSE UndefinedId

\* { ...obj, ...upd }: the properties of upd set on a copy of obj.
Spread(obj, upd) ==
    [ k \in DOMAIN obj \cup DOMAIN upd |-> IF k \in DOMAIN upd THEN upd[k] ELSE obj[k] ]

\* The time value of an Invalid Date (NaN), and of new Date(null) (the epoch).
InvalidDate == 0 - 1
Epoch == 0
\* The JSON value null.
JsonNull == [ null |-> TRUE ]

\* Date.prototype.toJSON, which JSON.stringify calls before the replacer: the
\* ISO string, null for an Invalid Date.
ToISOString(t) == IF t = InvalidDate THEN JsonNull ELSE [ iso |-> t ]
\* new Date(value) that keeps every other clock reading only.
NewDate_Coarse(s) == IF "iso" \in DOMAIN s THEN (s.iso \div 2) * 2 ELSE Epoch

\* new Date(value) on load, value being an ISO string or null.
NewDate(s) == IF "iso" \in DOMAIN s THEN s.iso ELSE Epoch
\* new Date(obj.timestamp): an Invalid Date when the property is not there.
TimestampOf(obj) ==
    IF "timestamp" \in DOMAIN obj THEN NewDate(obj.timestamp) ELSE InvalidDate

\* JSON.stringify(sessions, replacer): every 'timestamp' becomes its ISO string.
Stringify(sessions) ==
    [ i \in 1..Len(sessions) |->
        [ sessions[i] EXCEPT
            !.timestamp = ToISOString(sessions[i].timestamp),
            !.messages = [ j \in 1..Len(sessions[i].messages) |->
                [ sessions[i].messages[j] EXCEPT
                    !.timestamp = ToISOString(sessions[i].messages[j].timestamp) ] ] ] ]

\* The slot: no item, or an item that is text JSON.parse rejects ("text"), a
\* JSON value that is not an array ("scalar"), or a JSON array ("json").
NoItem == [ kind |-> "absent", sessions |-> << >> ]

\* saveChatSessions: localStorage.setItem with the serialized list.
saveChatSessions(sessions) == [ kind |-> "json", sessions |-> Stringify(sessions) ]

\* session.messages?.map(...) || [] of loadChatSessions.
LoadMessages(session) ==
    IF "messages" \in DOMAIN session
    THEN [ j \in 1..Len(session.messages) |->
             Spread(session.messages[j],
                    [ timestamp |-> TimestampOf(session.messages[j]) ]) ]
    ELSE << >>

\* loadChatSessions: parse the slot and rebuild the dates.  [] when there is
\* no item, and when anything throws inside the try block: JSON.parse on
\* text that is not JSON, parsed.map on a value that is not an array, the
\* property read session.timestamp on a null element.
loadChatSessions(slot) ==
    IF slot.kind # "json"
    THEN << >>
    ELSE IF \E i \in 1..Len(slot.sessions) : slot.sessions[i] = JsonNull
    THEN << >>
    ELSE [ i \in 1..Len(slot.sessions) |->
             Spread(slot.sessions[i],
                    [ timestamp |-> TimestampOf(slot.sessions[i]),
                      messages |-> LoadMessages(slot.sessions[i]) ]) ]

\* saveCurrentSession with the cached count left as it was.
saveCurrentSession_StaleCount(prev, cur, msgs) ==
    [ i \in 1..Len(prev) |->
        IF IdOf(prev[i]) = cur THEN Spread(prev[i], [ messages |-> msgs ]) ELSE prev[i] ]

\* saveCurrentSession keeping the active session only (filter for map).
saveCurrentSession_OnlyActive(prev, cur, msgs) ==
    LET kept == SelectSeq(prev, LAMBDA session : IdOf(session) = cur)
    IN  [ i \in 1..Len(kept) |->
            Spread(kept[i], [ messages |-> msgs, messageCount |-> Len(msgs) ]) ]

\* saveCurrentSession's updater: the displayed transcript is written into
\* every session whose id is the active id.
saveCurrentSession(prev, cur, msgs) ==
    [ i \in 1..Len(prev) |->
        IF IdOf(prev[i]) = cur
        THEN Spread(prev[i], [ messages |-> msgs, messageCount |-> Len(msgs) ])
        ELSE prev[i] ]

\* The save effect (deps [messages, currentSessionId]) of the render that
\* follows a handler: the list it leaves.
\* currentSessionId && messages.length > 0: the effect's guard.
SaveGuard(cur, msgs) == cur # << >> /\ cur # UndefinedId /\ Len(msgs) > 0

SaveEffect(prev, cur, msgs) ==
    IF SaveGuard(cur, msgs) THEN saveCurrentSession(prev, cur, msgs) ELSE prev

\* Array.prototype.find on the session list: the index of the first session
\* with this id, 0 when there is none.
FindSession(sessions, id) ==
    LET idx == { i \in 1..Len(sessions) : sessions[i].id = id }
    IN  IF idx = {} THEN 0 ELSE CHOOSE i \in idx : \A j \in idx : i <= j

SessionIds(sessions) == { sessions[i].id : i \in 1..Len(sessions) }

\* ------------------------------------------------------------ mount
\* The initialization effect, followed by the save effect of the render it
\* causes; `slot` is the localStorage slot found, `t` the clock.
MountSessions(slot, t) ==
    LET saved == loadChatSessions(slot)
    IN  IF Len(saved) > 0
        THEN saved
        ELSE << Session(ToString(1), << "BI Assistant Chat" >>, t,
                        << Greeting(InitialGreeting, t) >>) >>

\* The initialization effect activating the last session of the saved list.
Mount_LastActive(slot, t) ==
    LET list == MountSessions(slot, t)
        cur == IdOf(list[Len(list)])
        msgs == list[Len(list)].messages
    IN  /\ currentSessionId' = cur
        /\ messages' = msgs
        /\ chatSessions' = SaveEffect(list, cur, msgs)
        /\ storage' = saveChatSessions(SaveEffect(list, cur, msgs))
        /\ inputMessage' = << >>
        /\ isTyping' = FALSE
        /\ timers' = 0

Mount(slot, t) ==
    LET list == MountSessions(slot, t)
        cur == IdOf(list[1])
        msgs == list[1].messages
    IN  /\ currentSessionId' = cur
        /\ messages' = msgs
        /\ chatSessions' = SaveEffect(list, cur, msgs)
        /\ storage' = IF SaveGuard(cur, msgs)
                      THEN saveChatSessions(SaveEffect(list, cur, msgs))
                      ELSE IF Len(loadChatSessions(slot)) > 0
                      THEN slot
                      ELSE saveChatSessions(list)
        /\ inputMessage' = << >>
        /\ isTyping' = FALSE
        /\ timers' = 0

NoSend == [ id |-> << >>, len |-> 0 ]

Init ==
    LET list == MountSessions(NoItem, 2)
    IN  /\ now = 2
        /\ currentSessionId = list[1].id
        /\ messages = list[1].messages
        /\ chatSessions = SaveEffect(list, list[1].id, list[1].messages)
        /\ storage = saveChatSessions(SaveEffect(list, list[1].id, list[1].messages))
        /\ inputMessage = << >>
        /\ isTyping = FALSE
        /\ timers = 0
        /\ sentIn = NoSend
        /\ uncaught = FALSE

\* The page is reloaded: the component state and the pending timer are gone,
\* the localStorage slot stays.
Reload ==
    /\ Mount(storage, now)
    /\ sentIn' = NoSend
    /\ uncaught' = FALSE
    /\ UNCHANGED now

\* Time passes.
Tick ==
    /\ now < MaxNow
    /\ now' = now + 1
    /\ UNCHANGED << messages, inputMessage, isTyping, currentSessionId,
                    chatSessions, storage, timers, sentIn, uncaught >>

\* ------------------------------------------------------------ inputs
\* The ids a handler may be called with: those of the list, and '0', which is
\* never the id of a session ('1' is the first-load session, the others are
\* clock readings).
NoSuchId == ToString(0)
IdInputs == SessionIds(chatSessions) \cup { NoSuchId }
\* What the user may type into the Textarea or the title Input.
TextInputs == { << >>, << " " >>, << " ", "s", " " >> }

\* ------------------------------------------------------------ handlers
\* handleNewChat with the new session put at the end of the list.
handleNewChat_Appended ==
    /\ Len(chatSessions) < MaxSessions
    /\ LET initialMessage == Greeting(NewChatGreeting, now)
           newSession == Session(ToString(now), << "New BI Chat" >>, now,
                                 << initialMessage >>)
           updated == chatSessions \o << newSession >>
           saved == SaveEffect(updated, newSession.id, << initialMessage >>)
       IN  /\ chatSessions' = saved
           /\ storage' = saveChatSessions(saved)
           /\ currentSessionId' = newSession.id
           /\ messages' = << initialMessage >>
    /\ UNCHANGED << inputMessage, isTyping, timers, now, sentIn >>

\* handleNewChat, then the save effect (messages changed).
handleNewChat ==
    /\ Len(chatSessions) < MaxSessions
    /\ LET initialMessage == Greeting(NewChatGreeting, now)
           newSession == Session(ToString(now), << "New BI Chat" >>, now,
                                 << initialMessage >>)
           updated == << newSession >> \o chatSessions
           saved == SaveEffect(updated, newSession.id, << initialMessage >>)
       IN  /\ chatSessions' = saved
           /\ storage' = saveChatSessions(saved)
           /\ currentSessionId' = newSession.id
           /\ messages' = << initialMessage >>
    /\ UNCHANGED << inputMessage, isTyping, timers, now, sentIn >>

\* After handleSelectSession(sessionId) the save effect runs and calls
\* saveChatSessions: one of its dependencies [messages, currentSessionId]
\* changed and its guard holds.
SelectWrites(sessionId) ==
    LET found == FindSession(chatSessions, sessionId)
        msgs == IF found # 0 THEN chatSessions[found].messages ELSE messages
    IN  /\ sessionId # currentSessionId \/ msgs # messages
        /\ SaveGuard(sessionId, msgs)

\* handleSelectSession(sessionId), then the save effect when the active id
\* or the displayed transcript changed.
handleSelectSession(sessionId) ==
    /\ LET found == FindSession(chatSessions, sessionId)
           msgs == IF found # 0 THEN chatSessions[found].messages ELSE messages
           saved == SaveEffect(chatSessions, sessionId, msgs)
       IN  /\ currentSessionId' = sessionId
           /\ messages' = msgs
           /\ chatSessions' = IF SelectWrites(sessionId) THEN saved ELSE chatSessions
           /\ storage' = IF SelectWrites(sessionId)
                         THEN saveChatSessions(saved)
                         ELSE storage
    /\ UNCHANGED << inputMessage, isTyping, timers, now, sentIn >>

\* handleDeleteSession that only filters and saves: no promotion, no
\* synthesized session.
handleDeleteSession_FilterOnly(sessionId) ==
    /\ LET updated == SelectSeq(chatSessions, LAMBDA s : s.id # sessionId)
       IN  /\ chatSessions' = updated
           /\ storage' = saveChatSessions(updated)
    /\ UNCHANGED << currentSessionId, messages, inputMessage, isTyping, timers,
                    now, sentIn >>

\* handleDeleteSession(sessionId), then the save effect when the active id
\* or the displayed transcript changed.
handleDeleteSession(sessionId) ==
    /\ LET updated == SelectSeq(chatSessions, LAMBDA s : s.id # sessionId)
           newSession == Session(ToString(now), << "BI Assistant Chat" >>, now,
                                 << Greeting(DeleteGreeting, now) >>)
       IN  IF currentSessionId = sessionId /\ Len(updated) > 0
           THEN /\ currentSessionId' = updated[1].id
                /\ messages' = updated[1].messages
                /\ chatSessions' = SaveEffect(updated, updated[1].id, updated[1].messages)
                /\ storage' = saveChatSessions(
                                 SaveEffect(updated, updated[1].id, updated[1].messages))
           ELSE IF Len(updated) = 0
           THEN /\ currentSessionId' = newSession.id
                /\ messages' = newSession.messages
                /\ chatSessions' = SaveEffect(<< newSession >>, newSession.id,
                                              newSession.messages)
                /\ storage' = saveChatSessions(
                                 SaveEffect(<< newSession >>, newSession.id,
                                            newSession.messages))
           ELSE /\ chatSessions' = updated
                /\ storage' = saveChatSessions(updated)
                /\ UNCHANGED << currentSessionId, messages >>
    /\ UNCHANGED << inputMessage, isTyping, timers, now, sentIn >>

\* handleRenameSession that moves the renamed session to the front.
handleRenameSession_ToFront(sessionId, newTitle) ==
    LET renamed == [ i \in 1..Len(chatSessions) |->
                       IF chatSessions[i].id = sessionId
                       THEN [ chatSessions[i] EXCEPT !.title = newTitle ]
                       ELSE chatSessions[i] ]
        updated == SelectSeq(renamed, LAMBDA s : s.id = sessionId)
                       \o SelectSeq(renamed, LAMBDA s : s.id # sessionId)
    IN  /\ chatSessions' = updated
        /\ storage' = saveChatSessions(updated)

\* handleRenameSession that sets the title in memory and writes nothing.
handleRenameSession_Unsaved(sessionId, newTitle) ==
    /\ chatSessions' = [ i \in 1..Len(chatSessions) |->
                           IF chatSessions[i].id = sessionId
                           THEN [ chatSessions[i] EXCEPT !.title = newTitle ]
                           ELSE chatSessions[i] ]
    /\ UNCHANGED storage

\* handleRenameSession(sessionId, newTitle) of BIAssistant.
handleRenameSession(sessionId, newTitle) ==
    LET updated == [ i \in 1..Len(chatSessions) |->
                       IF chatSessions[i].id = sessionId
                       THEN [ chatSessions[i] EXCEPT !.title = newTitle ]
                       ELSE chatSessions[i] ]
    IN  /\ chatSessions' = updated
        /\ storage' = saveChatSessions(updated)

\* handleSaveEdit without the trimmed-title check.
handleSaveEdit_Unchecked(sessionId, editTitle) ==
    /\ handleRenameSession(sessionId, editTitle)
    /\ UNCHANGED << messages, inputMessage, isTyping, currentSessionId, timers,
                    now, sentIn >>

\* ChatHistory.handleSaveEdit(sessionId) with editTitle in the title Input:
\* the rename is forwarded only when the trimmed title is not empty.
handleSaveEdit(sessionId, editTitle) ==
    /\ IF Trim(editTitle) # << >>
       THEN handleRenameSession(sessionId, Trim(editTitle))
       ELSE UNCHANGED << chatSessions, storage >>
    /\ UNCHANGED << messages, inputMessage, isTyping, currentSessionId, timers,
                    now, sentIn >>

\* The Textarea's onChange with the Textarea never disabled.
setInputMessage_NeverDisabled(text) ==
    /\ inputMessage' = text
    /\ UNCHANGED << messages, isTyping, currentSessionId, chatSessions, storage,
                    timers, now, sentIn >>

\* The Textarea's onChange; the Textarea is disabled while isTyping.
setInputMessage(text) ==
    /\ ~isTyping
    /\ inputMessage' = text
    /\ UNCHANGED << messages, isTyping, currentSessionId, chatSessions, storage,
                    timers, now, sentIn >>

\* handleSendMessage with an input that is empty after trimming: early return.
handleSendMessageEmpty ==
    /\ Trim(inputMessage) = << >>
    /\ UNCHANGED << messages, inputMessage, isTyping, currentSessionId,
                    chatSessions, storage, timers, now, sentIn >>

\* The exploration bound on a send: the user message and the response fit
\* in the displayed transcript and in every transcript of the list.
CanGrow ==
    /\ Len(messages) + 2 <= MaxMessages
    /\ \A i \in 1..Len(chatSessions) :
           Len(chatSessions[i].messages) + 2 <= MaxMessages

\* handleSendMessage that sets the transcript to the user message alone.
handleSendMessage_Replaces ==
    /\ Trim(inputMessage) # << >>
    /\ CanGrow
    /\ LET userMessage == [ id |-> ToString(now), type |-> "user",
                            content |-> Trim(inputMessage), timestamp |-> now,
                            chartSpec |-> Undefined, tableData |-> Undefined ]
           saved == SaveEffect(chatSessions, currentSessionId, << userMessage >>)
       IN  /\ messages' = << userMessage >>
           /\ chatSessions' = saved
           /\ storage' = saveChatSessions(saved)
    /\ inputMessage' = << >>
    /\ isTyping' = TRUE
    /\ timers' = timers + 1
    /\ sentIn' = [ id |-> currentSessionId, len |-> Len(messages) ]
    /\ UNCHANGED << currentSessionId, now >>

\* handleSendMessage past its early return: the user message is appended,
\* the response callback is scheduled, then the save effect (messages
\* changed).
handleSendMessageAccepted ==
    /\ Trim(inputMessage) # << >>
    /\ LET userMessage == [ id |-> ToString(now), type |-> "user",
                            content |-> Trim(inputMessage), timestamp |-> now,
                            chartSpec |-> Undefined, tableData |-> Undefined ]
           msgs == Append(messages, userMessage)
           saved == SaveEffect(chatSessions, currentSessionId, msgs)
       IN  /\ messages' = msgs
           /\ chatSessions' = saved
           /\ storage' = saveChatSessions(saved)
    /\ inputMessage' = << >>
    /\ isTyping' = TRUE
    /\ timers' = timers + 1
    /\ sentIn' = [ id |-> currentSessionId, len |-> Len(messages) ]
    /\ UNCHANGED << currentSessionId, now >>

\* handleSendMessage, explored while the transcripts can grow.
handleSendMessage ==
    /\ CanGrow
    /\ handleSendMessageAccepted

\* The canned responses with the table response keeping a chart as well.
botResponse_TableWithChart(responseType, t) ==
    [ id |-> ToString(t + 1), type |-> "bot",
      content |-> << "Here's a breakdown of the top performing products:" >>,
      timestamp |-> t,
      chartSpec |-> IF responseType = 2 THEN Undefined ELSE "vega-lite sales line chart",
      tableData |-> IF responseType = 1 THEN "top products table" ELSE Undefined ]

\* The three canned responses, by Math.floor(Math.random() * 3).
botResponse(responseType, t) ==
    IF responseType = 0
    THEN [ id |-> ToString(t + 1), type |-> "bot",
           content |-> << "Here's a visualization of the sales trends over the last quarter:" >>,
           timestamp |-> t, chartSpec |-> "vega-lite sales line chart",
           tableData |-> Undefined ]
    ELSE IF responseType = 1
    THEN [ id |-> ToString(t + 1), type |-> "bot",
           content |-> << "Here's a breakdown of the top performing products:" >>,
           timestamp |-> t, chartSpec |-> Undefined,
           tableData |-> "top products table" ]
    ELSE [ id |-> ToString(t + 1), type |-> "bot",
           content |-> << "Based on the analysis of your data: ..." >>,
           timestamp |-> t, chartSpec |-> Undefined, tableData |-> Undefined ]

\* The setTimeout callback with no save effect after it.
timeoutCallback_Unsaved(responseType) ==
    /\ timers > 0
    /\ messages' = Append(messages, botResponse(responseType, now))
    /\ isTyping' = FALSE
    /\ timers' = timers - 1
    /\ UNCHANGED << inputMessage, currentSessionId, chatSessions, storage, now,
                    sentIn >>

\* The setTimeout callback without its setIsTyping(false).
timeoutCallback_StaysTyping(responseType) ==
    /\ timers > 0
    /\ LET msgs == Append(messages, botResponse(responseType, now))
           saved == SaveEffect(chatSessions, currentSessionId, msgs)
       IN  /\ messages' = msgs
           /\ chatSessions' = saved
           /\ storage' = saveChatSessions(saved)
    /\ timers' = timers - 1
    /\ UNCHANGED << inputMessage, isTyping, currentSessionId, now, sentIn >>

\* The setTimeout callback of handleSendMessage, then the save effect.
timeoutCallback(responseType) ==
    /\ timers > 0
    /\ LET msgs == Append(messages, botResponse(responseType, now))
           saved == SaveEffect(chatSessions, currentSessionId, msgs)
       IN  /\ messages' = msgs
           /\ chatSessions' = saved
           /\ storage' = saveChatSessions(saved)
    /\ isTyping' = FALSE
    /\ timers' = timers - 1
    /\ UNCHANGED << inputMessage, currentSessionId, now, sentIn >>

\* The events of the page, each running its handler to completion: nothing
\* is thrown.
NewChat == handleNewChat /\ UNCHANGED uncaught
SelectSession == \E id \in IdInputs : handleSelectSession(id) /\ UNCHANGED uncaught
DeleteSession == \E id \in IdInputs : handleDeleteSession(id) /\ UNCHANGED uncaught
RenameSession ==
    \E id \in IdInputs, t \in TextInputs : handleSaveEdit(id, t) /\ UNCHANGED uncaught
TypeInput == \E t \in TextInputs : setInputMessage(t) /\ UNCHANGED uncaught
SendEmpty == handleSendMessageEmpty /\ UNCHANGED uncaught
SendMessage == handleSendMessage /\ UNCHANGED uncaught
Response == \E r \in 0..2 : timeoutCallback(r) /\ UNCHANGED uncaught

Next ==
    \/ Reload
    \/ Tick
    \/ NewChat
    \/ SelectSession
    \/ DeleteSession
    \/ RenameSession
    \/ TypeInput
    \/ SendEmpty
    \/ SendMessage
    \/ Response

Spec == Init /\ [][Next]_vars

\* The page with the browser running a scheduled timer callback once its
\* delay has elapsed: setTimeout is never cleared by the code.
LiveSpec == Init /\ [][Next]_vars /\ WF_vars(Response)

\* ------------------------------------------ one conversation on its own
\* A single session in which questions and responses follow one another:
\* the clock runs, the user types and sends, and the callback runs once the
\* clock has moved on from the reading at which the question was sent.
ChatTick ==
    /\ now < MaxChatNow
    /\ now' = now + 1
    /\ UNCHANGED << messages, inputMessage, isTyping, currentSessionId,
                    chatSessions, storage, timers, sentIn, uncaught >>

ChatSend ==
    /\ Len(messages) + 2 <= MaxChatMessages
    /\ handleSendMessageAccepted
    /\ UNCHANGED uncaught

ChatResponse ==
    /\ timers > 0
    /\ now > messages[Len(messages)].timestamp
    /\ \E r \in 0..2 : timeoutCallback(r)
    /\ UNCHANGED uncaught

ChatNext ==
    \/ ChatTick
    \/ TypeInput
    \/ ChatSend
    \/ ChatResponse

ChatSpec == Init /\ [][ChatNext]_vars

\* ------------------------------------------- writes that may fail
\* localStorage.setItem throws (quota exceeded, storage disabled).
\* saveChatSessions has no try block, so the exception leaves it: thrown
\* inside a setChatSessions updater or an effect, it fails the render, no
\* state of that update is committed and React unmounts the component tree.
\* The slot keeps what it held.
setItemThrows ==
    /\ ~uncaught
    /\ uncaught' = TRUE
    /\ messages' = << >>
    /\ inputMessage' = << >>
    /\ isTyping' = FALSE
    /\ currentSessionId' = << >>
    /\ chatSessions' = << >>
    /\ timers' = 0
    /\ sentIn' = NoSend
    /\ UNCHANGED << storage, now >>

\* handleNewChat whose write throws.
handleNewChatThrows ==
    /\ Len(chatSessions) < MaxSessions
    /\ setItemThrows

\* handleDeleteSession(sessionId) whose write throws.
handleDeleteSessionThrows(sessionId) ==
    /\ sessionId \in IdInputs
    /\ setItemThrows

\* handleSaveEdit forwarding a title to handleRenameSession, whose write throws.
handleSaveEditThrows(sessionId, editTitle) ==
    /\ Trim(editTitle) # << >>
    /\ setItemThrows

\* handleSendMessage, the write of the save effect after it throwing.
handleSendMessageThrows ==
    /\ Trim(inputMessage) # << >>
    /\ CanGrow
    /\ SaveGuard(currentSessionId, messages)
    /\ setItemThrows

\* The setTimeout callback, the write of the save effect after it throwing.
timeoutCallbackThrows ==
    /\ timers > 0
    /\ SaveGuard(currentSessionId, messages)
    /\ setItemThrows

\* A reload whose initialization or save effect writes, the write throwing.
MountThrows ==
    /\ \/ Len(loadChatSessions(storage)) = 0
       \/ SaveGuard(IdOf(loadChatSessions(storage)[1]),
                    loadChatSessions(storage)[1].messages)
    /\ setItemThrows

QuotaExceeded ==
    \/ handleNewChatThrows
    \/ \E id \in IdInputs : handleDeleteSessionThrows(id)
    \/ \E id \in IdInputs, t \in TextInputs : handleSaveEditThrows(id, t)
    \/ handleSendMessageThrows
    \/ timeoutCallbackThrows
    \/ MountThrows

\* The page while its tree is mounted; after an uncaught exception only a
\* reload brings it back.
QuotaNext ==
    \/ ~uncaught /\ Next
    \/ QuotaExceeded
    \/ uncaught /\ Reload

QuotaSpec == Init /\ [][QuotaNext]_vars

\* ------------------------------------------------- the store on its own
\* Session lists to save: a seeded session, one with a question and a chart
\* response, one renamed with a table response.
SeededSession ==
    Session(ToString(1), << "BI Assistant Chat" >>, 1, << Greeting(InitialGreeting, 1) >>)

AskedMessage ==
    [ id |-> ToString(2), type |-> "user", content |-> << "s" >>, timestamp |-> 2,
      chartSpec |-> Undefined, tableData |-> Undefined ]

ChartSession ==
    [ Session(ToString(2), << "New BI Chat" >>, 2,
              << Greeting(NewChatGreeting, 2), AskedMessage, botResponse(0, 3) >>)
        EXCEPT !.messageCount = 3 ]

TableSession ==
    [ Session(ToString(3), << "s" >>, 3,
              << Greeting(DeleteGreeting, 3), AskedMessage, botResponse(1, 3) >>)
        EXCEPT !.messageCount = 3 ]

StoredSessions == { SeededSession, ChartSession, TableSession }

ValidLists ==
    { << >> } \cup { << a >> : a \in StoredSessions }
              \cup { q \in { << a, b >> : a \in StoredSessions, b \in StoredSessions } :
                         q[1].id # q[2].id }

\* What else the array in the slot may hold: null, an object of another
\* application, a session object without its messages.
ForeignObject == [ foo |-> << "bar" >> ]
NoMessagesSession ==
    [ id |-> ToString(3), title |-> << "s" >>, timestamp |-> ToISOString(1),
      messageCount |-> 0 ]

SlotElements ==
    { Stringify(<< a >>)[1] : a \in StoredSessions }
        \cup { JsonNull, ForeignObject, NoMessagesSession }

\* The contents of the slot a page may find.
Slots ==
    { NoItem,
      [ kind |-> "text", sessions |-> << >> ],
      [ kind |-> "scalar", sessions |-> << >> ] }
        \cup { [ kind |-> "json", sessions |-> << >> ] }
        \cup { [ kind |-> "json", sessions |-> << a >> ] : a \in SlotElements }
        \cup { [ kind |-> "json", sessions |-> << a, b >> ] :
                 a \in SlotElements, b \in SlotElements }

\* The component as constructed, before the initialization effect: the
\* useState defaults.
Unmounted ==
    /\ messages = << >>
    /\ inputMessage = << >>
    /\ isTyping = FALSE
    /\ currentSessionId = << >>
    /\ chatSessions = << >>
    /\ timers = 0

\* A page constructed over whatever the slot holds.
StoreInit ==
    /\ storage \in Slots
    /\ Unmounted
    /\ now = 2
    /\ sentIn = NoSend
    /\ uncaught = FALSE

StoreNext ==
    \/ Reload
    \/ Tick

StoreSpec == StoreInit /\ [][StoreNext]_vars

\* ------------------------------------------------------------ claims
\* Array.prototype.filter(s => s.id !== id) on a list, as the claims read it.
Without(sessions, id) == SelectSeq(sessions, LAMBDA s : s.id # id)

\* C1: every handleNewChat step, whatever else is going on, makes the list one
\* longer, and right after it the new session (id from the clock, one seeded
\* assistant greeting) is the first element and the active one.
C1_NewChatPrependsActive ==
    [][ handleNewChat =>
          /\ Len(chatSessions') = Len(chatSessions) + 1
          /\ chatSessions'[1].id = ToString(now)
          /\ chatSessions'[1].messageCount = 1
          /\ Len(chatSessions'[1].messages) = 1
          /\ chatSessions'[1].messages[1].type = "bot"
          /\ currentSessionId' = chatSessions'[1].id
          /\ messages' = chatSessions'[1].messages ]_vars

\* A new chat was opened while a response is pending: the fresh session is
\* first and active, the session of the send is behind it.
C1_Witness ==
    /\ isTyping
    /\ Len(chatSessions) = 2
    /\ currentSessionId = chatSessions[1].id
    /\ messages = chatSessions[1].messages
    /\ messages[1].content = NewChatGreeting
    /\ Len(messages) = 1
    /\ Len(chatSessions[2].messages) = 2
    /\ chatSessions[2].id # chatSessions[1].id

\* The session list holds a session with this id and this many messages.
HasTranscript(sessions, id, n) ==
    \E i \in 1..Len(sessions) : sessions[i].id = id /\ Len(sessions[i].messages) = n

\* C2: an accepted send appends exactly one user message at once, and when the
\* delay elapses exactly one assistant message is appended, so that the
\* transcript of the session in which the message was sent has grown by
\* exactly 2, whatever operations happened before the delay elapsed.  The
\* growth is read where it is least in doubt: the session of the send is
\* still in the list and a session of the list is active when the delay
\* elapses.
C2_SendGrowsItsSessionByTwo ==
    [][ /\ handleSendMessage =>
              /\ Len(messages') = Len(messages) + 1
              /\ messages'[Len(messages')].type = "user"
        /\ ( /\ \E r \in 0..2 : timeoutCallback(r)
             /\ sentIn.id \in SessionIds(chatSessions)
             /\ currentSessionId \in SessionIds(chatSessions) ) =>
              /\ Len(messages') = Len(messages) + 1
              /\ messages'[Len(messages')].type = "bot"
              /\ HasTranscript(chatSessions', sentIn.id, sentIn.len + 2) ]_vars

\* C3: exactly one session of the list is the active one, in every state.
C3_ExactlyOneActive ==
    Cardinality({ i \in 1..Len(chatSessions) :
                    chatSessions[i].id = currentSessionId }) = 1

\* C4: handleSelectSession with an id that is not in the list changes neither
\* the active id nor the displayed transcript.
C4_SelectMissingIsNoOp ==
    [][ \A id \in IdInputs :
          (handleSelectSession(id) /\ id \notin SessionIds(chatSessions)) =>
              /\ currentSessionId' = currentSessionId
              /\ messages' = messages ]_vars

\* C5: deleting the active session while other sessions remain removes it and
\* leaves the remaining list, whose first element becomes the active session
\* and whose messages become the displayed transcript.
C5_DeleteActivePromotesFirst ==
    [][ \A id \in IdInputs :
          ( /\ handleDeleteSession(id)
            /\ id = currentSessionId
            /\ id \in SessionIds(chatSessions)
            /\ Without(chatSessions, id) # << >> ) =>
              /\ chatSessions' = Without(chatSessions, id)
              /\ currentSessionId' = Without(chatSessions, id)[1].id
              /\ messages' = Without(chatSessions, id)[1].messages ]_vars

\* The list is [A, B] with A active, and deleting A leaves [B] with B active.
C5_Witness ==
    /\ Len(chatSessions) = 2
    /\ currentSessionId = chatSessions[1].id
    /\ chatSessions[2].id # chatSessions[1].id
    /\ ENABLED ( /\ handleDeleteSession(currentSessionId)
                 /\ Len(chatSessions') = 1
                 /\ currentSessionId' = chatSessions[2].id
                 /\ messages' = chatSessions[2].messages
                 /\ messages' # messages )

\* C6: deleting the only session of the list leaves a list of exactly one
\* session that holds one freshly seeded assistant greeting and is active, and
\* the localStorage slot holds that same one-session list.
C6_DeleteLastSynthesizes ==
    [][ \A id \in IdInputs :
          ( /\ handleDeleteSession(id)
            /\ Len(chatSessions) = 1
            /\ chatSessions[1].id = id ) =>
              /\ Len(chatSessions') = 1
              /\ chatSessions'[1].messageCount = 1
              /\ Len(chatSessions'[1].messages) = 1
              /\ chatSessions'[1].messages[1].type = "bot"
              /\ chatSessions'[1].messages[1].content = DeleteGreeting
              /\ chatSessions'[1].messages[1].timestamp = now
              /\ currentSessionId' = chatSessions'[1].id
              /\ messages' = chatSessions'[1].messages
              /\ storage'.kind = "json"
              /\ loadChatSessions(storage') = chatSessions' ]_vars

\* The only session, with a conversation in it and a response pending, can be
\* deleted, which replaces it by the synthesized session.
C6_Witness ==
    /\ Len(chatSessions) = 1
    /\ currentSessionId = chatSessions[1].id
    /\ Len(messages) = 2
    /\ isTyping
    /\ ENABLED ( /\ handleDeleteSession(currentSessionId)
                 /\ Len(chatSessions') = 1
                 /\ Len(messages') = 1
                 /\ chatSessions'[1].id = ToString(now) )

\* C7: saving a title that is empty or white space only leaves every session
\* as it was; saving any other title sets the trimmed title on the sessions
\* with that id, changes nothing else, and writes the list to the slot.
C7_RenameOnlyWithTitle ==
    [][ \A id \in IdInputs, t \in TextInputs :
          handleSaveEdit(id, t) =>
              IF Trim(t) = << >>
              THEN chatSessions' = chatSessions
              ELSE /\ Len(chatSessions') = Len(chatSessions)
                   /\ \A i \in 1..Len(chatSessions) :
                        chatSessions'[i] =
                            IF chatSessions[i].id = id
                            THEN [ chatSessions[i] EXCEPT !.title = Trim(t) ]
                            ELSE chatSessions[i]
                   /\ storage' = saveChatSessions(chatSessions') ]_vars

\* With two sessions in the list, a white-space title can be saved on one of
\* them and a real title too, which renames that one only.
C7_Witness ==
    /\ Len(chatSessions) = 2
    /\ chatSessions[1].id # chatSessions[2].id
    /\ chatSessions[1].title # << "s" >>
    /\ ENABLED handleSaveEdit(chatSessions[1].id, << " " >>)
    /\ ENABLED ( /\ handleSaveEdit(chatSessions[1].id, << " ", "s", " " >>)
                 /\ chatSessions'[1].title = << "s" >>
                 /\ chatSessions'[2] = chatSessions[2] )

\* C8: while the text is empty after trimming, and while a response is
\* awaited, no step appends a user message to the displayed transcript or
\* schedules a response; the send
\* handler finds an empty text whenever a response is awaited, and at most
\* one response is outstanding.
C8_SendIgnoredWhenEmptyOrAwaiting ==
    /\ [](timers <= 1)
    /\ [](isTyping <=> timers = 1)
    /\ [](isTyping => Trim(inputMessage) = << >>)
    /\ [][ (Trim(inputMessage) = << >> \/ isTyping) =>
              /\ timers' <= timers
              /\ ~ ( /\ Len(messages') = Len(messages) + 1
                     /\ SubSeq(messages', 1, Len(messages)) = messages
                     /\ messages'[Len(messages')].type = "user" ) ]_vars

\* A response is awaited after a send, and the send handler can be invoked:
\* it takes its early return.
C8_Witness ==
    /\ isTyping
    /\ timers = 1
    /\ Len(messages) >= 2
    /\ messages[Len(messages)].type = "user"
    /\ ENABLED handleSendMessageEmpty

\* The response shapes a message has: text only, chart, table.
Shapes(m) ==
    { k \in { "text", "chart", "table" } :
        \/ k = "text" /\ m.chartSpec = Undefined /\ m.tableData = Undefined
        \/ k = "chart" /\ m.chartSpec # Undefined
        \/ k = "table" /\ m.tableData # Undefined }

\* Every transcript of the state: the displayed one and those of the list.
Transcripts == { messages } \cup { chatSessions[i].messages : i \in 1..Len(chatSessions) }

\* C9: every assistant message, displayed or stored in a session, has exactly
\* one of the three response shapes.
C9_OneResponseShape ==
    \A t \in Transcripts : \A i \in 1..Len(t) :
        t[i].type = "bot" => Cardinality(Shapes(t[i])) = 1

\* A table response has been appended to the displayed transcript and saved.
C9_Witness ==
    /\ Len(messages) = 3
    /\ messages[3].type = "bot"
    /\ Shapes(messages[3]) = { "table" }
    /\ \E i \in 1..Len(chatSessions) : chatSessions[i].messages = messages

\* C10: messageCount of every session of the list is the length of its
\* messages.
C10_MessageCountIsLength ==
    \A i \in 1..Len(chatSessions) :
        chatSessions[i].messageCount = Len(chatSessions[i].messages)

\* A session has been saved with a user message and a response behind its
\* greeting, and reloaded from the slot.
C10_Witness ==
    /\ \E i \in 1..Len(chatSessions) : chatSessions[i].messageCount = 3
    /\ loadChatSessions(storage) = chatSessions
    /\ ~isTyping
\* C11: a valid session list that was saved loads as that same list, and a
\* page that mounts over it holds that list and leaves the slot as it is.
C11_RoundTrip ==
    [][ Reload =>
          \A S \in ValidLists :
              storage = saveChatSessions(S) =>
                  /\ loadChatSessions(storage) = S
                  /\ S # << >> => (chatSessions' = S /\ storage' = storage) ]_vars

\* A page has mounted over a saved list of two sessions, the first holding a
\* chart response.
C11_Witness ==
    /\ storage = saveChatSessions(<< ChartSession, SeededSession >>)
    /\ chatSessions = << ChartSession, SeededSession >>
    /\ messages = ChartSession.messages
    /\ messages[3].timestamp = 3

\* The slot holds data that is malformed: text that is not JSON, JSON that is
\* not an array, or an array that is not one of well-formed sessions.
Malformed(slot) ==
    /\ slot # NoItem
    /\ \A S \in ValidLists : slot # saveChatSessions(S)

\* C12: over a slot that is absent or holds malformed data, loadChatSessions
\* returns the empty list, and the initialization leaves exactly one default
\* session with one greeting, active and persisted.
C12_LoadFailsSoft ==
    [][ (Reload /\ (storage = NoItem \/ Malformed(storage))) =>
          /\ loadChatSessions(storage) = << >>
          /\ Len(chatSessions') = 1
          /\ chatSessions'[1].messages = << Greeting(InitialGreeting, now) >>
          /\ currentSessionId' = ToString(1)
          /\ messages' = chatSessions'[1].messages
          /\ storage' = saveChatSessions(chatSessions') ]_vars

\* C13: a write to the slot that fails during newChat, delete, rename, send
\* or initialization is swallowed: no exception reaches the page, which
\* stays mounted with the operation done in memory.
C13_WriteFailuresSwallowed == ~uncaught

\* C14: whenever a handler and its save effect have completed, the slot holds
\* the serialization of the whole in-memory session list; in particular
\* after handleNewChat, handleDeleteSession, handleRenameSession, the user
\* message of a send and the assistant message of its response.
C14_SlotHoldsTheList ==
    /\ storage = saveChatSessions(chatSessions)
    /\ loadChatSessions(storage) = chatSessions

\* Two sessions, the active one with a question and its response, the other
\* renamed: all of it is in the slot.
C14_Witness ==
    /\ Len(chatSessions) = 2
    /\ \E i \in 1..2 :
         /\ chatSessions[i].id = currentSessionId
         /\ Len(chatSessions[i].messages) = 3
         /\ chatSessions[i].messages = messages
         /\ messages[3].type = "bot"
    /\ \E i \in 1..2 : chatSessions[i].title = << "s" >>
    /\ storage.sessions[1].title = chatSessions[1].title
    /\ ~isTyping

\* C15: handleSelectSession with the id of a session of the list makes it the
\* active one and displays its messages, and nothing is persisted by it: the
\* list and the slot are as before and saveChatSessions is not called.  It
\* is read where a session of the list is the active one before the switch.
C15_SelectIsReadOnly ==
    [][ \A id \in SessionIds(chatSessions) :
          (handleSelectSession(id) /\ currentSessionId \in SessionIds(chatSessions)) =>
              /\ currentSessionId' = id
              /\ messages' = chatSessions[FindSession(chatSessions, id)].messages
              /\ chatSessions' = chatSessions
              /\ storage' = storage
              /\ ~SelectWrites(id) ]_vars

\* C16: a reload over a slot that holds a non-empty list leaves that list in
\* memory, its first session active whichever session was active before, and
\* that session's messages displayed.
C16_ReloadActivatesFirst ==
    [][ (Reload /\ Len(loadChatSessions(storage)) > 0) =>
          /\ chatSessions' = loadChatSessions(storage)
          /\ currentSessionId' = chatSessions'[1].id
          /\ messages' = chatSessions'[1].messages ]_vars

\* The second of two sessions is active and shows a conversation; a reload
\* brings the first one up, and drops the pending response.
C16_Witness ==
    /\ Len(chatSessions) = 2
    /\ currentSessionId = chatSessions[2].id
    /\ currentSessionId # chatSessions[1].id
    /\ messages = chatSessions[2].messages
    /\ isTyping
    /\ ENABLED ( /\ Reload
                 /\ chatSessions' = chatSessions
                 /\ currentSessionId' = chatSessions[1].id
                 /\ messages' = chatSessions[1].messages
                 /\ messages' # messages
                 /\ ~isTyping' )

\* C17: the ids of the sessions of the list are pairwise distinct in every
\* state, also when sessions are created at the same clock reading.
C17_SessionIdsDistinct ==
    \A i, j \in 1..Len(chatSessions) :
        chatSessions[i].id = chatSessions[j].id => i = j

\* C18: once a send has been accepted, its response callback fires, whatever
\* sessions are selected, created, renamed or deleted meanwhile: only the
\* callback (or a reload of the page) ends the wait, the callback appends
\* exactly one assistant message and leaves the page idle, and the wait
\* always ends.
C18_ResponseAlwaysFires ==
    /\ [][ (timers' < timers /\ ~Reload) =>
              /\ timers' = 0
              /\ ~isTyping'
              /\ Len(messages') = Len(messages) + 1
              /\ SubSeq(messages', 1, Len(messages)) = messages
              /\ messages'[Len(messages')].type = "bot" ]_vars
    /\ [][ (isTyping /\ ~isTyping') => (timers' < timers) ]_vars
    /\ (isTyping ~> ~isTyping)
    /\ (timers > 0 ~> timers = 0)

\* The response is pending while the session of the send has been deleted
\* and a renamed other session is displayed.
C18_Witness ==
    /\ isTyping
    /\ timers = 1
    /\ sentIn.id \notin SessionIds(chatSessions)
    /\ sentIn.len = 1
    /\ currentSessionId \in SessionIds(chatSessions)
    /\ \E i \in 1..Len(chatSessions) :
         chatSessions[i].id = currentSessionId /\ chatSessions[i].title = << "s" >>

\* The message is one of the three seeded assistant greetings.
IsGreeting(m) ==
    /\ m.type = "bot"
    /\ m.id = ToString(1)
    /\ m.content \in { InitialGreeting, NewChatGreeting, DeleteGreeting }
    /\ m.chartSpec = Undefined
    /\ m.tableData = Undefined

\* C19: every session of the list has at least one message, and its first
\* message is an assistant greeting, in every state.
C19_SessionsStartWithGreeting ==
    \A i \in 1..Len(chatSessions) :
        /\ Len(chatSessions[i].messages) >= 1
        /\ IsGreeting(chatSessions[i].messages[1])

\* Two sessions after a response went to the other one: one holds greeting
\* and question, the other greeting and response.
C19_Witness ==
    /\ Len(chatSessions) = 2
    /\ \E i, j \in 1..2 :
         /\ Len(chatSessions[i].messages) = 2
         /\ chatSessions[i].messages[2].type = "user"
         /\ Len(chatSessions[j].messages) = 2
         /\ chatSessions[j].messages[2].type = "bot"
    /\ loadChatSessions(storage) = chatSessions

\* C20: a session leaves the list only in a handleDeleteSession step called
\* with its id: no other step, and no handleDeleteSession of another id,
\* makes the list shorter or drops an id from it.
C20_RemovedOnlyByDelete ==
    [][ /\ \A i \in 1..Len(chatSessions) :
             chatSessions[i].id \notin SessionIds(chatSessions') =>
                 handleDeleteSession(chatSessions[i].id)
        /\ Len(chatSessions') < Len(chatSessions) =>
             \E id \in SessionIds(chatSessions) : handleDeleteSession(id) ]_vars

\* Of two sessions the second holds a question whose response is pending and
\* the first is displayed; deleting the second leaves exactly the first.
C20_Witness ==
    /\ Len(chatSessions) = 2
    /\ chatSessions[1].id # chatSessions[2].id
    /\ currentSessionId = chatSessions[1].id
    /\ sentIn.id = chatSessions[2].id
    /\ Len(chatSessions[2].messages) = 2
    /\ isTyping
    /\ ENABLED ( /\ handleDeleteSession(chatSessions[2].id)
                 /\ chatSessions' = << chatSessions[1] >> )
\* The ids of a list, in the order of the list.
IdsInOrder(sessions) == [ i \in 1..Len(sessions) |-> sessions[i].id ]

\* C21: the list is in insertion order, newest first: handleNewChat puts the
\* new session in front of the others, which keep their order; a delete
\* leaves the remaining sessions in their order (or the one synthesized
\* session); every other step, a reload included, leaves the order of the
\* list as it is.
C21_NewestFirstOrderKept ==
    [][ /\ handleNewChat =>
             IdsInOrder(chatSessions') = << ToString(now) >> \o IdsInOrder(chatSessions)
        /\ \/ IdsInOrder(chatSessions') = IdsInOrder(chatSessions)
           \/ handleNewChat
           \/ \E id \in IdInputs :
                /\ handleDeleteSession(id)
                /\ \/ IdsInOrder(chatSessions') = IdsInOrder(Without(chatSessions, id))
                   \/ Without(chatSessions, id) = << >> /\ Len(chatSessions') = 1 ]_vars

\* The older of two sessions has been renamed, is displayed and holds a
\* conversation, and is still behind the newer one.
C21_Witness ==
    /\ Len(chatSessions) = 2
    /\ chatSessions[1].timestamp > chatSessions[2].timestamp
    /\ chatSessions[2].title = << "s" >>
    /\ currentSessionId = chatSessions[2].id
    /\ currentSessionId # chatSessions[1].id
    /\ Len(chatSessions[2].messages) = 3
    /\ messages = chatSessions[2].messages

\* The sequence p is a prefix of the sequence q.
IsPrefix(p, q) == Len(p) <= Len(q) /\ SubSeq(q, 1, Len(p)) = p

\* C22: transcripts are append-only: over any step, a session that is in the
\* list before and after (the same id) has its earlier messages as a prefix
\* of its later ones.
C22_TranscriptsAppendOnly ==
    [][ \A i \in 1..Len(chatSessions), j \in 1..Len(chatSessions') :
          chatSessions[i].id = chatSessions'[j].id =>
              IsPrefix(chatSessions[i].messages, chatSessions'[j].messages) ]_vars

\* Number(id): the number a decimal id string denotes.
RECURSIVE ToNumber(_)
ToNumber(digits) ==
    IF digits = << >>
    THEN 0
    ELSE ToNumber(SubSeq(digits, 1, Len(digits) - 1)) * 10 + digits[Len(digits)]

\* C23: within every transcript, displayed or stored, the message ids are
\* pairwise distinct and strictly increasing in the order of the messages.
C23_MessageIdsIncrease ==
    \A t \in Transcripts : \A i, j \in 1..Len(t) :
        i < j => ToNumber(t[i].id) < ToNumber(t[j].id)

\* C24: when the pending response resolves, its assistant message is appended
\* to the transcript displayed at that moment and written into the sessions
\* whose id is the active id then, and into the slot; every other session,
\* the one of the send included, is left as it was.  The pending flag is one
\* for the page: selecting, creating or deleting a session leaves it, and
\* the scheduled callback, as they are.
C24_ResponseGoesToDisplayed ==
    [][ /\ \A r \in 0..2 :
             timeoutCallback(r) =>
                 /\ messages' = Append(messages, botResponse(r, now))
                 /\ ~isTyping'
                 /\ Len(chatSessions') = Len(chatSessions)
                 /\ \A i \in 1..Len(chatSessions) :
                      IF chatSessions[i].id = currentSessionId
                      THEN /\ chatSessions'[i].messages = messages'
                           /\ chatSessions'[i].messageCount = Len(messages')
                           /\ chatSessions'[i].id = chatSessions[i].id
                           /\ chatSessions'[i].title = chatSessions[i].title
                      ELSE chatSessions'[i] = chatSessions[i]
                 /\ storage' = saveChatSessions(chatSessions')
        /\ ( \/ handleNewChat
             \/ \E id \in IdInputs : handleSelectSession(id)
             \/ \E id \in IdInputs : handleDeleteSession(id) ) =>
                 /\ isTyping' = isTyping
                 /\ timers' = timers ]_vars

\* A question was sent in one session and its response has resolved while
\* another was displayed: the other session holds the response and is in the
\* slot with it, the session of the question holds no response.
C24_Witness ==
    /\ ~isTyping
    /\ timers = 0
    /\ sentIn.id # currentSessionId
    /\ HasTranscript(chatSessions, sentIn.id, sentIn.len + 1)
    /\ \E i \in 1..Len(chatSessions) :
         /\ chatSessions[i].id = currentSessionId
         /\ chatSessions[i].messages = messages
         /\ messages[Len(messages)].type = "bot"
         /\ Len(messages) = 2
         /\ storage.sessions[i].messageCount = 2

\* C25: whenever the handlers and their save effects have completed, the
\* displayed transcript is the messages the list holds for the active
\* session, so every displayed message is in the list that is persisted.
C25_DisplayedIsStored ==
    \E i \in 1..Len(chatSessions) :
        /\ chatSessions[i].id = currentSessionId
        /\ chatSessions[i].messages = messages
        /\ loadChatSessions(storage)[i].messages = messages
====
